---- MODULE Spec2Model ----
(***************************************************************************)
(* Call-session orchestration and tool-invocation protocol of the SMB      *)
(* voice agent: one call row of the store, the agent job that serves it    *)
(* (entry, event handlers, shutdown callback), the five tools the language *)
(* model can invoke, and the Twilio status callback of the API server.     *)
(*                                                                         *)
(* Every await of the source is one step: a step ends where the code       *)
(* suspends, so the other writers of the call row interleave exactly at    *)
(* the awaits.  Results of store reads and of external integrations are    *)
(* inputs of the step that awaits them.                                    *)
(***************************************************************************)
EXTENDS Integers, Sequences, FiniteSets, Bags, TLC

(* ------------------------------ bounds -------------------------------- *)

\* clock ticks of TickMs milliseconds the model lets pass
MaxTicks == 2
\* speech-committed events per session
MaxSpeech == 2
\* MetricsCollected events per session
MaxMetrics == 2
\* tool invocations per session
MaxTools == 1
\* Twilio status callbacks per call
MaxStatus == 1
\* function calls in one reply of the language model
MaxCalls == 1
\* events one speech stream emits
MaxFrames == 3

\* messages in one GeminiLLM.chat request
MaxMessages == 2

\* agent.ts:342  Math.floor((endedAt - startedAt) / 1000)
MsPerSecond == 1000

\* the clock advances in half seconds, so whole-second rounding is visible
TickMs == MsPerSecond \div 2

(* ----------------------------- helpers -------------------------------- *)

\* an optional column or argument: None is SQL NULL / undefined
None == <<>>
Some(x) == <<x>>

IsPrefix(s, t) == /\ Len(s) <= Len(t)
                  /\ \A i \in 1..Len(s) : s[i] = t[i]

\* a Date: Some(instant in milliseconds), or the Invalid Date (NaN time value)
InvalidDate == None

\* Math.round on a non-negative ratio num/den
Round(num, den) == (2 * num + den) \div (2 * den)

(* ------------------------------ state --------------------------------- *)

VARIABLES
  now,                 \* wall clock, milliseconds
  meta,                \* room metadata handed to the job (server: createRoom)
  row,                 \* the call row in the store
  events,              \* call_events rows: a bag of [type, inv]
  leads,               \* leads rows created for this call
  appointments,        \* appointments rows created for this call
  entry,               \* position of entry in agent.ts
  attached,            \* session.start has resolved: handlers and tools can run
  callbacks,           \* shutdown callbacks registered with the job context
  shutdown,            \* position of the job's teardown
  final,               \* locals of updateFinalCallStats
  finalizeRuns,        \* runs of updateFinalCallStats that have started
  callbackThrew,       \* an exception left the shutdown callback
  finalLog,            \* what the runs of updateFinalCallStats met and logged
  transcriptMessages,  \* the session's in-memory transcript
  usage,               \* UsageCollector totals
  inflight,            \* store writes issued by handlers, not yet applied
  nMetrics,            \* MetricsCollected events handled
  nStatus,             \* status callbacks handled
  tool,                \* the tool invocation in progress or last returned
  handlerFailures,     \* what became of the handlers' rejected writes
  chat,                \* one GeminiLLM.chat call: the model's reply, the result
  stream,              \* one DeepgramSpeechStream: its connection, what it emitted
  callRows,            \* two concurrent calls: their rows in the store, by id
  jobs,                \* two concurrent calls: the locals of their agent jobs
  pending,             \* two concurrent calls: handler writes not yet applied
  setup                \* the API server setting up a call: its position, the row

vars == <<now, meta, row, events, leads, appointments, entry, attached,
          callbacks, shutdown, final, finalizeRuns, callbackThrew, finalLog,
          transcriptMessages, usage, inflight, nMetrics, nStatus, tool,
          handlerFailures, chat, stream, callRows, jobs, pending, setup>>

sessionVars == <<entry, attached, callbacks, shutdown, final, finalizeRuns,
                 callbackThrew, finalLog>>
handlerVars == <<transcriptMessages, usage, inflight, nMetrics, handlerFailures>>
adapterVars == <<chat, stream>>
fleetVars == <<callRows, jobs, pending>>
storeVars == <<row, events, leads, appointments>>

(* ------------------------------ store --------------------------------- *)

\* Database.updateCall: a partial update of the row's columns
UpdateCall_DefaultsFlag(r, data) ==
  [f \in DOMAIN r |-> IF f \in DOMAIN data THEN data[f]
                      ELSE IF f = "transferred_to_human" THEN FALSE ELSE r[f]]

UpdateCall(r, data) ==
  [f \in DOMAIN r |-> IF f \in DOMAIN data THEN data[f] ELSE r[f]]

\* Database.logCallEvent: inserts one call_events row; the insert's error
\* result is not looked at, so a failed insert is silent
LogCallEvent(evs, type, inv, ok) ==
  IF ok THEN evs (+) SetToBag({[type |-> type, inv |-> inv]}) ELSE evs

EventCount(type, inv) == CopiesIn([type |-> type, inv |-> inv], events)

\* the row as the server creates it (createCall plus the schema defaults)
NewCall ==
  [ status |-> "in_progress",
    twilio_status |-> "in-progress",
    started_at |-> 0,
    answered_at |-> None,
    ended_at |-> None,
    duration_seconds |-> None,
    outcome |-> None,
    transferred_to_human |-> FALSE,
    notes |-> None,
    caller_name |-> None,
    caller_email |-> None,
    transcript |-> <<>>,
    cost_stt |-> 0,
    cost_llm |-> 0,
    cost_tts |-> 0,
    cost_total |-> 0 ]

Metadata ==
  [businessId : BOOLEAN, callId : BOOLEAN,
   callerPhone : BOOLEAN, twilioCallSid : BOOLEAN]

IdleTool ==
  [ inv |-> 0, kind |-> "none", pc |-> "idle", args |-> None, at |-> 0,
    local |-> None, timezone |-> None, hours |-> None, calls |-> 0,
    scheduledAt |-> None, hubspot |-> FALSE, link |-> FALSE,
    env |-> {}, failed |-> {}, external |-> "none",
    result |-> "none", threw |-> FALSE ]

\* lead.test.ts:463  a call of GeminiLLM.chat that has not started
IdleChat ==
  [ pc |-> "idle", messages |-> <<>>, history |-> <<>>, sent |-> None,
    reply |-> None, result |-> None ]

\* deepgram-stt.ts:84-106  the stream as stt.stream() builds it: one live
\* connection with its three listeners, nothing emitted yet
NewStream == [connection |-> "open", connects |-> 1, emitted |-> <<>>]

\* the ids of two calls in progress at the same time
CallIds == {"call-1", "call-2"}

\* part_003:100-131  the part of a call row the two-call model follows
NewCallRow == [status |-> "in_progress", outcome |-> None, transcript |-> <<>>]

\* agent.ts:131-136, 229  the locals of the job of call c: the callId of its
\* room's metadata (the tools' context is built from it, agent.ts:51-58), its
\* transcript list, and how far it got
NewJob(c) ==
  [callId |-> c, transcriptMessages |-> <<>>, invoked |-> 0, finalized |-> FALSE]

\* part_003:100, 218  no webhook or API request for the call yet
IdleSetup ==
  [ api |-> "none", pc |-> "idle", call |-> None, room |-> FALSE,
    twilioCall |-> FALSE, progress |-> 0, reported |-> FALSE, job |-> FALSE ]

Init ==
  /\ now = 0
  /\ meta \in Metadata
  /\ row = NewCall
  /\ events = EmptyBag
  /\ leads = <<>>
  /\ appointments = <<>>
  /\ entry = "parse"
  /\ attached = FALSE
  /\ callbacks = 0
  /\ shutdown = "none"
  /\ final = None
  /\ finalizeRuns = 0
  /\ callbackThrew = FALSE
  /\ finalLog = <<>>
  /\ transcriptMessages = <<>>
  /\ usage = [stt |-> 0, llm |-> 0, tts |-> 0]
  /\ inflight = {}
  /\ nMetrics = 0
  /\ nStatus = 0
  /\ tool = IdleTool
  /\ handlerFailures = {}
  /\ chat = IdleChat
  /\ stream = NewStream
  /\ callRows = [c \in CallIds |-> NewCallRow]
  /\ jobs = [c \in CallIds |-> NewJob(c)]
  /\ pending = {}
  /\ setup = IdleSetup

Tick ==
  /\ now < MaxTicks * TickMs
  /\ now' = now + TickMs
  /\ UNCHANGED <<meta, adapterVars, fleetVars, setup, storeVars, sessionVars, handlerVars, nStatus, tool>>

(* --------------------------- agent: entry ----------------------------- *)

\* agent.ts:138  if (!businessId || !callId) throw
MetadataComplete_BusinessOnly(m) == m.businessId

MetadataComplete(m) == m.businessId /\ m.callId

\* agent.ts:131-141  read the room metadata; missing ids are fatal
EntryParse ==
  /\ entry = "parse"
  /\ shutdown = "none"
  /\ entry' = IF MetadataComplete(meta) THEN "getBusiness" ELSE "threw"
  /\ UNCHANGED <<now, meta, adapterVars, fleetVars, setup, storeVars, attached, callbacks, shutdown, final,
                 finalizeRuns, callbackThrew, finalLog, handlerVars, nStatus, tool>>

\* agent.ts:143-255  load the business, then (synchronously) build the
\* session, register the handlers and the shutdown callback
EntryGetBusiness ==
  /\ entry = "getBusiness"
  /\ shutdown = "none"
  /\ \E found \in BOOLEAN :
       IF found
         THEN /\ entry' = "start"
              /\ callbacks' = callbacks + 1
         ELSE /\ entry' = "threw"
              /\ callbacks' = callbacks
  /\ UNCHANGED <<now, meta, adapterVars, fleetVars, setup, storeVars, attached, shutdown, final,
                 finalizeRuns, callbackThrew, finalLog, handlerVars, nStatus, tool>>

\* agent.ts:257-266  session.start
EntryStart ==
  /\ entry = "start"
  /\ shutdown = "none"
  /\ \E ok \in BOOLEAN :
       /\ entry' = IF ok THEN "connect" ELSE "threw"
       /\ attached' = ok
  /\ UNCHANGED <<now, meta, adapterVars, fleetVars, setup, storeVars, callbacks, shutdown, final,
                 finalizeRuns, callbackThrew, finalLog, handlerVars, nStatus, tool>>

\* agent.ts:268-269  ctx.connect
EntryConnect ==
  /\ entry = "connect"
  /\ shutdown = "none"
  /\ \E ok \in BOOLEAN : entry' = IF ok THEN "mark" ELSE "threw"
  /\ UNCHANGED <<now, meta, adapterVars, fleetVars, setup, storeVars, attached, callbacks, shutdown, final,
                 finalizeRuns, callbackThrew, finalLog, handlerVars, nStatus, tool>>

\* agent.ts:272-275  the data of the status write
InProgressUpdate(t) == [status |-> "in_progress", answered_at |-> Some(t)]

\* agent.ts:271-283  mark the call in progress; a failed write is rethrown
EntryMark ==
  /\ entry = "mark"
  /\ shutdown = "none"
  /\ \E ok \in BOOLEAN :
       IF ok
         THEN /\ row' = UpdateCall(row, InProgressUpdate(now))
              /\ entry' = "ready"
         ELSE /\ row' = row
              /\ entry' = "threw"
  /\ UNCHANGED <<now, meta, adapterVars, fleetVars, setup, events, leads, appointments, attached, callbacks,
                 shutdown, final, finalizeRuns, callbackThrew, finalLog, handlerVars,
                 nStatus, tool>>

(* ------------------------ agent: finalization ------------------------- *)

\* the job ends (caller hangup, room closed by the provider, entry threw):
\* the job context runs the shutdown callbacks that were registered
Teardown ==
  /\ shutdown = "none"
  /\ entry # "parse"
  /\ shutdown' = IF callbacks > 0 THEN "getCall" ELSE "closed"
  /\ final' = [left |-> callbacks, endedAt |-> None, startedAt |-> None]
  /\ UNCHANGED <<now, meta, adapterVars, fleetVars, setup, storeVars, entry, attached, callbacks,
                 finalizeRuns, callbackThrew, finalLog, handlerVars, nStatus, tool>>

\* what is left to run after one callback has returned
AfterCallback(f) == IF f.left > 1 THEN "getCall" ELSE "closed"

\* agent.ts:355-357  the catch block of updateFinalCallStats
FinalFailure_Rethrow == "rethrown"

FinalFailure == "logged"

\* agent.ts:340-348  the closing write
FinalStats_NoFloor(endedAt, startedAt) ==
  [ status |-> "completed",
    ended_at |-> Some(endedAt),
    duration_seconds |-> Some(Round(endedAt - startedAt, MsPerSecond)) ]

FinalStats(endedAt, startedAt) ==
  [ status |-> "completed",
    ended_at |-> Some(endedAt),
    duration_seconds |-> Some((endedAt - startedAt) \div MsPerSecond) ]

\* agent.ts:202-210, 335-342  logUsage -> updateFinalCallStats: read the call;
\* a missing call (or a failed read, which getCall turns into null) returns
FinalGetCall ==
  /\ shutdown = "getCall"
  /\ finalizeRuns' = finalizeRuns + 1
  /\ \E found \in BOOLEAN :
       IF found
         THEN /\ shutdown' = "update"
              /\ final' = [final EXCEPT !.endedAt = Some(now),
                                        !.startedAt = Some(row.started_at)]
              /\ finalLog' = finalLog
         ELSE /\ shutdown' = AfterCallback(final)
              /\ final' = [final EXCEPT !.left = final.left - 1]
              /\ finalLog' = Append(finalLog, "no_call")
  /\ UNCHANGED <<now, meta, adapterVars, fleetVars, setup, storeVars, entry, attached, callbacks,
                 callbackThrew, handlerVars, nStatus, tool>>

\* agent.ts:344-357  write the closing fields; a failed write is caught
FinalUpdate ==
  /\ shutdown = "update"
  /\ \E ok \in BOOLEAN :
       IF ok
         THEN /\ row' = UpdateCall(row, FinalStats(final.endedAt[1],
                                                   final.startedAt[1]))
              /\ callbackThrew' = callbackThrew
              /\ finalLog' = Append(finalLog, "call_completed")
         ELSE /\ row' = row
              /\ callbackThrew' = (callbackThrew \/ FinalFailure = "rethrown")
              /\ finalLog' = Append(finalLog, IF FinalFailure = "logged"
                                                THEN "error_logged" ELSE "update_failed")
  /\ shutdown' = AfterCallback(final)
  /\ final' = [final EXCEPT !.left = final.left - 1]
  /\ UNCHANGED <<now, meta, adapterVars, fleetVars, setup, events, leads, appointments, entry, attached,
                 callbacks, finalizeRuns, handlerVars, nStatus, tool>>

(* ------------------- API server: Twilio status callback --------------- *)

CallStatuses == {"ringing", "completed", "failed", "busy", "no-answer"}

\* CallDuration of the request body: absent, or a string of digits
CallDurations == {None, Some("0"), Some("2")}

\* parseInt on the strings of CallDurations
ParseInt(s) == IF s = "0" THEN 0 ELSE IF s = "2" THEN 2 ELSE 0 - 1

\* part_003:353-364  the update the status callback builds
StatusUpdates(CallStatus, CallDuration, t) ==
  LET base == [twilio_status |-> CallStatus]
      ends == CallStatus \in {"completed", "failed", "busy", "no-answer"}
      closing == [ twilio_status |-> CallStatus,
                   ended_at |-> Some(t),
                   status |-> IF CallStatus = "completed" THEN "completed"
                                                       ELSE "failed" ]
  IN IF ~ends THEN base
     ELSE IF CallDuration = None THEN closing
     ELSE [ twilio_status |-> CallStatus,
            ended_at |-> Some(t),
            status |-> closing.status,
            duration_seconds |-> Some(ParseInt(CallDuration[1])) ]

\* part_003:333-380  POST /api/twilio/status for this call: update the row,
\* then log the event; a failed update is caught and nothing is logged
TwilioStatus ==
  /\ nStatus < MaxStatus
  /\ nStatus' = nStatus + 1
  /\ \E CallStatus \in CallStatuses, CallDuration \in CallDurations,
        ok \in BOOLEAN, logged \in BOOLEAN :
       IF ok
         THEN /\ row' = UpdateCall(row, StatusUpdates(CallStatus, CallDuration, now))
              /\ events' = LogCallEvent(events, "status_update", 0, logged)
         ELSE /\ row' = row
              /\ events' = events
  /\ UNCHANGED <<now, meta, adapterVars, fleetVars, setup, leads, appointments, sessionVars, handlerVars, tool>>

(* ---------------------- agent: event handlers ------------------------- *)

Live == attached /\ shutdown = "none"

\* agent.ts:213-227  a speech-boundary handler: await db.logCallEvent.  The
\* insert's result is not looked at, so the handler's promise resolves
\* whether or not the event row was stored.
SpeechBoundary(type) ==
  /\ Live
  /\ BagCardinality(events) < MaxSpeech
  /\ \E ok \in BOOLEAN : events' = LogCallEvent(events, type, 0, ok)
  /\ UNCHANGED <<now, meta, adapterVars, fleetVars, setup, row, leads, appointments, sessionVars,
                 handlerVars, nStatus, tool>>

UserStartedSpeaking == SpeechBoundary("user_started_speaking")

UserStoppedSpeaking == SpeechBoundary("user_stopped_speaking")

AgentStartedSpeaking == SpeechBoundary("agent_started_speaking")

AgentStoppedSpeaking == SpeechBoundary("agent_stopped_speaking")

\* agent.ts:233-237, 246-250  transcriptMessages.push(entry)
Push_Front(msgs, message) == <<message>> \o msgs

Push(msgs, message) == Append(msgs, message)

\* agent.ts:232-255  push the entry, then write the whole list to the row.
\* The write is issued and the handler suspends; nobody awaits the handler.
SpeechCommitted(speaker) ==
  /\ Live
  /\ Len(transcriptMessages) < MaxSpeech
  /\ LET msgs == Push(transcriptMessages,
                      [speaker |-> speaker, timestamp |-> now])
     IN /\ transcriptMessages' = msgs
        /\ inflight' = inflight \cup
                         {[src |-> "transcript", data |-> [transcript |-> msgs]]}
  /\ UNCHANGED <<now, meta, adapterVars, fleetVars, setup, storeVars, sessionVars, usage, nMetrics,
                 handlerFailures, nStatus, tool>>

UserSpeechCommitted == SpeechCommitted("user")

AgentSpeechCommitted == SpeechCommitted("agent")

\* the metrics objects the session reports (fields absent are 0)
MetricsEvents ==
  { [sttDuration |-> 120, llmTokensInput |-> 0, llmTokensOutput |-> 0, ttsCharacters |-> 0],
    [sttDuration |-> 0, llmTokensInput |-> 60000, llmTokensOutput |-> 40000, ttsCharacters |-> 0],
    [sttDuration |-> 0, llmTokensInput |-> 0, llmTokensOutput |-> 0, ttsCharacters |-> 100],
    [sttDuration |-> 0, llmTokensInput |-> 0, llmTokensOutput |-> 0, ttsCharacters |-> 10] }

\* agent.ts:311-314  Math.round(sttDuration / 60 * 0.0043 * 100)
calculateSTTCost(m) == Round(m.sttDuration * 43, 6000)

\* agent.ts:319-322  Math.round(tokens / 1000 * 0.000075 * 100)
calculateLLMCost(m) == Round((m.llmTokensInput + m.llmTokensOutput) * 3, 400000)

\* agent.ts:327-330  Math.round(ttsCharacters / 1000 * 0.30 * 100)
calculateTTSCost(m) == Round(m.ttsCharacters * 3, 100)

\* agent.ts:291-302  the data of the cost write
CostUpdate(m) ==
  [ cost_stt |-> calculateSTTCost(m),
    cost_llm |-> calculateLLMCost(m),
    cost_tts |-> calculateTTSCost(m),
    cost_total |-> calculateSTTCost(m) + calculateLLMCost(m) + calculateTTSCost(m) ]

\* agent.ts:191-199  collect the usage, then issue the cost write
MetricsCollected ==
  /\ Live
  /\ nMetrics < MaxMetrics
  /\ nMetrics' = nMetrics + 1
  /\ \E m \in MetricsEvents :
       /\ usage' = [ stt |-> usage.stt + m.sttDuration,
                     llm |-> usage.llm + m.llmTokensInput + m.llmTokensOutput,
                     tts |-> usage.tts + m.ttsCharacters ]
       /\ inflight' = inflight \cup {[src |-> "cost", data |-> CostUpdate(m)]}
  /\ UNCHANGED <<now, meta, adapterVars, fleetVars, setup, storeVars, sessionVars, transcriptMessages,
                 handlerFailures, nStatus, tool>>

\* what becomes of a write the store rejects (updateCall throws).
\* agent.ts:196-198, 289-306: updateCallCosts catches and logs its own.
\* agent.ts:232-255: the transcript handlers await updateCall with no catch,
\* and nobody awaits the handler, so its promise rejects unhandled.
WriteRejected(src) ==
  IF src = "cost" THEN "costErrorLogged" ELSE "unhandledRejection"

\* database.ts:190-200  the store applies (or rejects) one of the writes the
\* handlers issued; requests of different handlers are served in any order
ApplyWrite ==
  /\ \E w \in inflight, ok \in BOOLEAN :
       /\ inflight' = inflight \ {w}
       /\ row' = IF ok THEN UpdateCall(row, w.data) ELSE row
       /\ handlerFailures' = IF ok THEN handlerFailures
                                   ELSE handlerFailures \cup {WriteRejected(w.src)}
  /\ UNCHANGED <<now, meta, adapterVars, fleetVars, setup, events, leads, appointments, sessionVars,
                 transcriptMessages, usage, nMetrics, nStatus, tool>>

(* ------------------------------- tools -------------------------------- *)

\* the LLM turn loop invokes one tool at a time, while the session is live
CanInvokeWithin(limit) ==
  /\ Live
  /\ tool.pc \in {"idle", "done"}
  /\ tool.inv < limit

CanInvoke == CanInvokeWithin(MaxTools)

Invoke(kind, args) ==
  [ IdleTool EXCEPT !.inv = tool.inv + 1, !.kind = kind, !.args = args,
                    !.at = now, !.pc = "getBusiness", !.result = "running",
                    !.local = tool.local ]

\* what the invocation has been answered so far: the facts its reads
\* returned (env) and the store writes that failed (failed)
Saw(t, fact) == [t EXCEPT !.env = t.env \cup {fact}]
Failed(t, write) == [t EXCEPT !.failed = t.failed \cup {write}]
SawIf(t, cond, fact) == IF cond THEN Saw(t, fact) ELSE t
FailedIf(t, cond, write) == IF cond THEN Failed(t, write) ELSE t

Return(t, result) == [t EXCEPT !.pc = "done", !.result = result]

\* the outer catch of an execute: what the invocation ends with
Caught(t, onError) ==
  [t EXCEPT !.pc = "done", !.result = onError.result, !.threw = onError.threw]

At(kind, pc) == tool.kind = kind /\ tool.pc = pc

\* one request to an external integration: appointment.ts:132-137
\* calendar.events.insert, lead.ts:161-170 fetch (HubSpot), transfer.ts:148-164
\* fetch (Twilio)
Called_Twice(t) == [t EXCEPT !.calls = @ + 2]

Called(t) == [t EXCEPT !.calls = @ + 1]

(* book_appointment *)

\* UTC offsets of the timezones: a zone's wall clock reads UTC + offset
Offsets == {0, TickMs}

\* the date and time arguments: a wall-clock reading in milliseconds (the
\* epoch is the call's started_at), or None for a pair of strings that is no
\* date
WallTimes == {None} \cup {Some(k * TickMs) : k \in 0..MaxTicks}

\* the timezone of the agent process, fixed for the life of the process and
\* known to the model from the first Date it parses
LocalOffsets == IF tool.local = None THEN Offsets ELSE {tool.local[1]}

\* appointment.ts:74  new Date(`${date}T${time}:00`): a date-time string
\* without an offset is read as local time of the process
ParseLocal(wall, offset) ==
  IF wall = None THEN InvalidDate ELSE Some(wall[1] - offset)

\* the instants a caller can ask for
Dates == {ParseLocal(wall, offset) : wall \in WallTimes, offset \in Offsets}

\* appointment.ts:204-207
BookOnError_Rethrow == [result |-> "exception", threw |-> TRUE]

BookOnError == [result |-> "book_apology", threw |-> FALSE]

\* appointment.ts:76-79  scheduledAt < new Date(); false for the Invalid Date
HasPassed_Never(scheduledAt, t) == FALSE

HasPassed(scheduledAt, t) == scheduledAt # InvalidDate /\ scheduledAt[1] < t

\* appointment.ts:62-79  parse the date, reject a past one
BookInvoke(limit) ==
  /\ CanInvokeWithin(limit)
  /\ \E wall \in WallTimes, offset \in LocalOffsets :
       LET scheduledAt == ParseLocal(wall, offset)
           t == [Invoke("book_appointment", [date |-> wall])
                   EXCEPT !.local = Some(offset), !.scheduledAt = scheduledAt]
       IN /\ scheduledAt \in Dates
          /\ tool' = IF HasPassed(scheduledAt, now) THEN Return(t, "date_passed") ELSE t
  /\ UNCHANGED <<now, meta, adapterVars, fleetVars, setup, storeVars, sessionVars, handlerVars, nStatus>>

BookStart == BookInvoke(MaxTools)

\* appointment.ts:81-91  load the business; decide on the calendar
BookGetBusiness ==
  /\ At("book_appointment", "getBusiness")
  /\ \E found \in BOOLEAN, calendar \in BOOLEAN, timezone \in Offsets :
       tool' = IF ~found THEN Caught(tool, BookOnError)
               ELSE [SawIf(Saw(tool, "business"), calendar, "calendar")
                       EXCEPT !.timezone = Some(timezone),
                              !.pc = IF calendar THEN "calendar"
                                                 ELSE "createAppointment"]
  /\ UNCHANGED <<now, meta, adapterVars, fleetVars, setup, storeVars, sessionVars, handlerVars, nStatus>>

\* appointment.ts:146-149  the catch around the calendar call
CalendarFailure_Rethrow(t) == Caught([t EXCEPT !.external = "failed"], BookOnError)

CalendarFailure(t) == [t EXCEPT !.pc = "createAppointment", !.external = "failed"]

\* appointment.ts:92-150  events.insert.  Building the event formats the
\* date, which throws for the Invalid Date before any request is made.
BookCalendar ==
  /\ At("book_appointment", "calendar")
  /\ \E r \in {"link", "nolink", "fail"} :
       tool' = IF tool.scheduledAt = InvalidDate THEN CalendarFailure(tool)
               ELSE IF r = "fail" THEN CalendarFailure(Called(tool))
               ELSE [Called(tool) EXCEPT !.pc = "createAppointment",
                                         !.external = "ok", !.link = (r = "link")]
  /\ UNCHANGED <<now, meta, adapterVars, fleetVars, setup, storeVars, sessionVars, handlerVars, nStatus>>

\* appointment.ts:152-166  insert the appointment row
BookCreateAppointment ==
  /\ At("book_appointment", "createAppointment")
  /\ \E ok \in BOOLEAN :
       IF ok /\ tool.scheduledAt # InvalidDate
         THEN /\ appointments' = Append(appointments,
                   [inv |-> tool.inv, scheduled_at |-> tool.scheduledAt[1],
                    google_meet_link |-> tool.link, status |-> "scheduled"])
              /\ tool' = [tool EXCEPT !.pc = "logEvent"]
         ELSE /\ appointments' = appointments
              /\ tool' = Caught(Failed(tool, "createAppointment"), BookOnError)
  /\ UNCHANGED <<now, meta, adapterVars, fleetVars, setup, row, events, leads, sessionVars, handlerVars, nStatus>>

\* appointment.ts:168-174
BookLogEvent ==
  /\ At("book_appointment", "logEvent")
  /\ \E ok \in BOOLEAN :
       /\ events' = LogCallEvent(events, "appointment_booked", tool.inv, ok)
       /\ tool' = [FailedIf(tool, ~ok, "logCallEvent") EXCEPT !.pc = "updateCall"]
  /\ UNCHANGED <<now, meta, adapterVars, fleetVars, setup, row, leads, appointments, sessionVars, handlerVars, nStatus>>

\* appointment.ts:177-179  the data of the outcome write
BookOutcome_None == [caller_name |-> None]

BookOutcome == [outcome |-> Some("appointment_booked")]

\* appointment.ts:176-202  set the outcome, build the confirmation
BookUpdateCall ==
  /\ At("book_appointment", "updateCall")
  /\ \E ok \in BOOLEAN :
       IF ok
         THEN /\ row' = UpdateCall(row, BookOutcome)
              /\ tool' = Return(tool, IF tool.link THEN "booked_meet_link"
                                                   ELSE "booked_confirmation_email")
         ELSE /\ row' = row
              /\ tool' = Caught(Failed(tool, "updateCall"), BookOnError)
  /\ UNCHANGED <<now, meta, adapterVars, fleetVars, setup, events, leads, appointments, sessionVars, handlerVars, nStatus>>

(* create_lead *)

\* lead.ts:146-149
LeadOnError_Rethrow == [result |-> "exception", threw |-> TRUE]

LeadOnError == [result |-> "lead_apology", threw |-> FALSE]

\* lead.ts:70  !email && !phone && !context.callerPhone, negated
HasContact_Always(email, phone, callerPhone) == TRUE

HasContact(email, phone, callerPhone) == email \/ phone \/ callerPhone

\* lead.ts:60-73  require a contact channel
LeadInvoke(limit) ==
  /\ CanInvokeWithin(limit)
  /\ \E email \in BOOLEAN, phone \in BOOLEAN :
       LET t == Invoke("create_lead", [email |-> email, phone |-> phone])
       IN tool' = IF ~HasContact(email, phone, meta.callerPhone)
                    THEN Return(t, "need_contact") ELSE t
  /\ UNCHANGED <<now, meta, adapterVars, fleetVars, setup, storeVars, sessionVars, handlerVars, nStatus>>

LeadStart == LeadInvoke(MaxTools)

\* one more lead than MaxTools, for the calls that use several tools
LeadStartAgain == LeadInvoke(MaxTools + 1)

\* lead.ts:75-79
LeadGetBusiness ==
  /\ At("create_lead", "getBusiness")
  /\ \E found \in BOOLEAN, hubspot \in BOOLEAN :
       tool' = IF ~found THEN Caught(tool, LeadOnError)
               ELSE [SawIf(Saw(tool, "business"), hubspot, "hubspot_api_key")
                       EXCEPT !.pc = "createLead", !.hubspot = hubspot]
  /\ UNCHANGED <<now, meta, adapterVars, fleetVars, setup, storeVars, sessionVars, handlerVars, nStatus>>

\* lead.ts:81-98  insert the lead row
LeadCreate ==
  /\ At("create_lead", "createLead")
  /\ \E ok \in BOOLEAN :
       IF ok
         THEN /\ leads' = Append(leads, [inv |-> tool.inv, status |-> "new",
                                         hubspot_contact_id |-> None])
              /\ tool' = [tool EXCEPT !.pc = IF tool.hubspot THEN "hubspot"
                                                             ELSE "logEvent"]
         ELSE /\ leads' = leads
              /\ tool' = Caught(Failed(tool, "createLead"), LeadOnError)
  /\ UNCHANGED <<now, meta, adapterVars, fleetVars, setup, row, events, appointments, sessionVars, handlerVars, nStatus>>

\* lead.ts:122-125  the catch around the CRM sync
HubSpotFailure_Rethrow(t) == Caught([t EXCEPT !.external = "failed"], LeadOnError)

HubSpotFailure(t) == [t EXCEPT !.pc = "logEvent", !.external = "failed"]

\* lead.ts:99-110  createHubSpotContact
LeadHubSpot ==
  /\ At("create_lead", "hubspot")
  /\ \E ok \in BOOLEAN :
       tool' = IF ok THEN [Called(tool) EXCEPT !.pc = "updateLead", !.external = "ok"]
                     ELSE HubSpotFailure(Called(tool))
  /\ UNCHANGED <<now, meta, adapterVars, fleetVars, setup, storeVars, sessionVars, handlerVars, nStatus>>

\* lead.ts:112-125  back-fill the contact id; a failed update lands in the
\* same catch as a failed sync
LeadUpdateLead ==
  /\ At("create_lead", "updateLead")
  /\ \E ok \in BOOLEAN :
       IF ok
         THEN /\ leads' = [i \in 1..Len(leads) |->
                            IF leads[i].inv = tool.inv
                              THEN [leads[i] EXCEPT !.hubspot_contact_id = Some("hs")]
                              ELSE leads[i]]
              /\ tool' = [tool EXCEPT !.pc = "logEvent"]
         ELSE /\ leads' = leads
              /\ tool' = [Failed(tool, "updateLead") EXCEPT !.pc = "logEvent"]
  /\ UNCHANGED <<now, meta, adapterVars, fleetVars, setup, row, events, appointments, sessionVars, handlerVars, nStatus>>

\* lead.ts:128-134
LeadLogEvent ==
  /\ At("create_lead", "logEvent")
  /\ \E ok \in BOOLEAN :
       /\ events' = LogCallEvent(events, "lead_captured", tool.inv, ok)
       /\ tool' = [FailedIf(tool, ~ok, "logCallEvent") EXCEPT !.pc = "updateCall"]
  /\ UNCHANGED <<now, meta, adapterVars, fleetVars, setup, row, leads, appointments, sessionVars, handlerVars, nStatus>>

\* lead.ts:137-141  the data of the outcome write (an undefined email is
\* dropped from the request body)
LeadOutcome_None(email) == [caller_name |-> Some("name")]

LeadOutcome(email) ==
  IF email
    THEN [outcome |-> Some("lead_captured"), caller_name |-> Some("name"),
          caller_email |-> Some("email")]
    ELSE [outcome |-> Some("lead_captured"), caller_name |-> Some("name")]

\* lead.ts:136-144  set the outcome, build the confirmation
LeadUpdateCall ==
  /\ At("create_lead", "updateCall")
  /\ \E ok \in BOOLEAN :
       IF ok
         THEN /\ row' = UpdateCall(row, LeadOutcome(tool.args.email))
              /\ tool' = Return(tool, IF tool.args.email THEN "lead_saved_email"
                                                         ELSE "lead_saved_phone")
         ELSE /\ row' = row
              /\ tool' = Caught(Failed(tool, "updateCall"), LeadOnError)
  /\ UNCHANGED <<now, meta, adapterVars, fleetVars, setup, events, leads, appointments, sessionVars, handlerVars, nStatus>>

(* lookup_customer *)

\* lead.ts:258-261
LookupOnError_Rethrow == [result |-> "exception", threw |-> TRUE]

LookupOnError == [result |-> "generic_greeting", threw |-> FALSE]

\* lead.ts:204  const lookupPhone = phone || context.callerPhone
lookupPhone_Always(phone, callerPhone) == TRUE

lookupPhone(phone, callerPhone) == phone \/ callerPhone

\* lead.ts:202-213  choose the phone to look up
LookupStart ==
  /\ CanInvoke
  /\ \E phone \in BOOLEAN :
       LET t == [Invoke("lookup_customer", [phone |-> phone]) EXCEPT !.pc = "query"]
       IN tool' = IF ~lookupPhone(phone, meta.callerPhone)
                    THEN Return(t, "need_phone") ELSE t
  /\ UNCHANGED <<now, meta, adapterVars, fleetVars, setup, storeVars, sessionVars, handlerVars, nStatus>>

\* lead.ts:215-247  query the tenant's leads for the phone
LookupQuery ==
  /\ At("lookup_customer", "query")
  /\ \E r \in {"error", "throws", "empty", "found", "converted"} :
       tool' = CASE r = "error"  -> Return(Saw(tool, "query_error"), "lookup_unable")
                 [] r = "throws" -> Caught(Saw(tool, "query_threw"), LookupOnError)
                 [] r = "empty"  -> Return(tool, "new_customer")
                 [] OTHER        -> [Saw(tool, "lead") EXCEPT !.pc = "logEvent",
                                                 !.link = (r = "converted")]
  /\ UNCHANGED <<now, meta, adapterVars, fleetVars, setup, storeVars, sessionVars, handlerVars, nStatus>>

\* lead.ts:249-256
LookupLogEvent ==
  /\ At("lookup_customer", "logEvent")
  /\ \E ok \in BOOLEAN :
       /\ events' = LogCallEvent(events, "customer_looked_up", tool.inv, ok)
       /\ tool' = Return(FailedIf(tool, ~ok, "logCallEvent"),
                         IF tool.link THEN "welcome_back_valued" ELSE "welcome_back")
  /\ UNCHANGED <<now, meta, adapterVars, fleetVars, setup, row, leads, appointments, sessionVars, handlerVars, nStatus>>

(* transfer_to_human *)

\* transfer.ts:123-126
TransferOnError_Rethrow == [result |-> "exception", threw |-> TRUE]

TransferOnError == [result |-> "transfer_apology", threw |-> FALSE]

TransferNotes == {None, Some("account locked")}

\* transfer.ts:48-55
TransferInvoke(limit) ==
  /\ CanInvokeWithin(limit)
  /\ \E notes \in TransferNotes :
       tool' = Invoke("transfer_to_human", [reason |-> "billing", notes |-> notes])
  /\ UNCHANGED <<now, meta, adapterVars, fleetVars, setup, storeVars, sessionVars, handlerVars, nStatus>>

TransferStart == TransferInvoke(MaxTools)

\* the caller asks for a person once more than the other tools are invoked
TransferStartAgain == TransferInvoke(MaxTools + 1)

\* transfer.ts:57-61
TransferGetBusiness ==
  /\ At("transfer_to_human", "getBusiness")
  /\ \E found \in BOOLEAN :
       tool' = IF found THEN [Saw(tool, "business") EXCEPT !.pc = "getCall"]
                        ELSE Caught(tool, TransferOnError)
  /\ UNCHANGED <<now, meta, adapterVars, fleetVars, setup, storeVars, sessionVars, handlerVars, nStatus>>

\* transfer.ts:63-67  the call and its inbound line
TransferGetCall ==
  /\ At("transfer_to_human", "getCall")
  /\ \E r \in {"null", "no_phone_number_id", "ok"} :
       tool' = IF r = "ok" THEN [Saw(tool, "call") EXCEPT !.pc = "getPhoneNumber"]
                           ELSE Caught(tool, TransferOnError)
  /\ UNCHANGED <<now, meta, adapterVars, fleetVars, setup, storeVars, sessionVars, handlerVars, nStatus>>

\* transfer.ts:77-80  if (!transferNumber) return the follow-up message
NoTransferNumber_Proceed(t) == [t EXCEPT !.pc = "updateCall"]

NoTransferNumber(t) == Return(t, "team_will_reach_out")

\* transfer.ts:82-100  with a forwarding number the first thing is the
\* update of the call row
HasTransferNumber_RedirectFirst(t) == [Saw(t, "forward_to") EXCEPT !.pc = "redirect"]

HasTransferNumber(t) == [Saw(t, "forward_to") EXCEPT !.pc = "updateCall"]

\* transfer.ts:69-80  the line's forward_to; none (or a failed read) ends the
\* invocation with the follow-up message
TransferGetPhoneNumber ==
  /\ At("transfer_to_human", "getPhoneNumber")
  /\ \E forward_to \in BOOLEAN :
       tool' = IF forward_to THEN HasTransferNumber(tool)
                             ELSE NoTransferNumber(tool)
  /\ UNCHANGED <<now, meta, adapterVars, fleetVars, setup, storeVars, sessionVars, handlerVars, nStatus>>

\* transfer.ts:83-87  the data of the transfer write; the template string
\* `Transfer reason: ${reason}. ${notes || ''}` replaces the notes column
TransferUpdate_NoOutcome(reason, notes) ==
  [ transferred_to_human |-> TRUE,
    notes |-> Some(<<reason>> \o notes) ]

TransferUpdate(reason, notes) ==
  [ transferred_to_human |-> TRUE,
    outcome |-> Some("transferred"),
    notes |-> Some(<<reason>> \o notes) ]

\* transfer.ts:82-87  mark the call transferred
TransferUpdateCall ==
  /\ At("transfer_to_human", "updateCall")
  /\ \E ok \in BOOLEAN :
       IF ok
         THEN /\ row' = UpdateCall(row, TransferUpdate(tool.args.reason, tool.args.notes))
              /\ tool' = [tool EXCEPT !.pc = "logEvent"]
         ELSE /\ row' = row
              /\ tool' = Caught(Failed(tool, "updateCall"), TransferOnError)
  /\ UNCHANGED <<now, meta, adapterVars, fleetVars, setup, events, leads, appointments, sessionVars, handlerVars, nStatus>>

\* transfer.ts:89-98, 120-121  log the event; without a Twilio call SID the
\* invocation ends here with the connect-you message
TransferLogEvent ==
  /\ At("transfer_to_human", "logEvent")
  /\ \E ok \in BOOLEAN :
       /\ events' = LogCallEvent(events, "transfer_initiated", tool.inv, ok)
       /\ LET t == FailedIf(tool, ~ok, "logCallEvent")
          IN tool' = IF meta.twilioCallSid THEN [t EXCEPT !.pc = "redirect"]
                                           ELSE Return(t, "connect_you")
  /\ UNCHANGED <<now, meta, adapterVars, fleetVars, setup, row, leads, appointments, sessionVars, handlerVars, nStatus>>

\* transfer.ts:114-121  the catch around the carrier redirect
RedirectFailure_Rethrow(t) == Caught([t EXCEPT !.external = "failed"], TransferOnError)

RedirectFailure(t) == Return([t EXCEPT !.external = "failed"], "connect_you")

\* transfer.ts:99-121, 134-170  initiateTransferViaTwilio: without the
\* account's credentials it throws before any request is made
TransferRedirect ==
  /\ At("transfer_to_human", "redirect")
  /\ \E r \in {"ok", "fail", "no_credentials"} :
       tool' = IF r = "no_credentials" THEN RedirectFailure(tool)
               ELSE IF r = "fail" THEN RedirectFailure(Called(tool))
               ELSE Return([Called(tool) EXCEPT !.external = "ok"], "transferring_now")
  /\ UNCHANGED <<now, meta, adapterVars, fleetVars, setup, storeVars, sessionVars, handlerVars, nStatus>>

(* check_business_hours *)

\* transfer.ts:222-225
HoursOnError_Rethrow == [result |-> "exception", threw |-> TRUE]

HoursOnError == [result |-> "schedule_callback", threw |-> FALSE]

\* transfer.ts:184
HoursStart ==
  /\ CanInvoke
  /\ tool' = Invoke("check_business_hours", None)
  /\ UNCHANGED <<now, meta, adapterVars, fleetVars, setup, storeVars, sessionVars, handlerVars, nStatus>>

\* transfer.ts:195-198  toLocaleDateString with weekday: 'lowercase'.  The
\* weekday option admits "narrow", "short" and "long" only, so formatting
\* raises a RangeError.
WeekdayOptions == {"narrow", "short", "long"}
FormatWeekday(option) == IF option \in WeekdayOptions THEN "weekday" ELSE "RangeError"

\* the hours map's entry for the current weekday (none, or open and close),
\* and the current time of day, all as 'HH:MM' readings in the tenant's zone
TodayHours == {None, Some([open |-> 1, close |-> MaxTicks])}
TimesOfDay == 0..MaxTicks

\* transfer.ts:207-220  the three reports
HoursReport(todayHours, currentTime) ==
  IF todayHours = None THEN "closed_today"
  ELSE IF currentTime >= todayHours[1].open /\ currentTime < todayHours[1].close
         THEN "open_until"
         ELSE "closed_open_hours"

\* transfer.ts:186-225  load the business and report on its hours
HoursGetBusiness ==
  /\ At("check_business_hours", "getBusiness")
  /\ \E r \in {"null", "no_hours", "hours"},
        todayHours \in TodayHours, currentTime \in TimesOfDay :
       LET t == [Saw(tool, "business_hours") EXCEPT
                   !.hours = Some([today |-> todayHours, currentTime |-> currentTime])]
       IN tool' = IF r # "hours" THEN Return(SawIf(tool, r = "no_hours", "business"),
                                             "monday_through_friday")
                  ELSE IF FormatWeekday("lowercase") = "RangeError"
                         THEN Caught(t, HoursOnError)
                         ELSE Return(t, HoursReport(todayHours, currentTime))
  /\ UNCHANGED <<now, meta, adapterVars, fleetVars, setup, storeVars, sessionVars, handlerVars, nStatus>>

(* ------------------------- GeminiLLM: chat ---------------------------- *)

\* transfer.ts:33-46  the parameters transfer_to_human declares: the type of
\* each key, and whether the object must have it
ToolSchema ==
  [ reason |-> [type |-> "string", required |-> TRUE],
    urgency |-> [type |-> "string", required |-> FALSE],
    notes |-> [type |-> "string", required |-> FALSE] ]

KeyOrder == <<"reason", "urgency", "notes">>

\* the JSON types of the values the language model fills in
JsonTypes == {"string", "number"}

\* fc.args: an object with some of the keys, each with a value of some type
FunctionArgs == UNION {[keys -> JsonTypes] : keys \in SUBSET DOMAIN ToolSchema}

\* response.functionCalls(): none, or up to MaxCalls calls
FunctionCalls ==
  UNION {[1..n -> [name : {"transfer_to_human"}, args : FunctionArgs]] : n \in 0..MaxCalls}

\* JSON.stringify of an args object: its members as text, in key order
JSONStringify(args) ==
  LET keys == SelectSeq(KeyOrder, LAMBDA k : k \in DOMAIN args)
  IN [i \in 1..Len(keys) |-> <<keys[i], args[keys[i]]>>]

\* JSON.parse of such a text
JSONParse(text) ==
  [k \in {text[i][1] : i \in 1..Len(text)} |->
     text[CHOOSE i \in 1..Len(text) : text[i][1] = k][2]]

\* the object satisfies the declared schema
Conforms(args) ==
  /\ \A k \in DOMAIN ToolSchema : ToolSchema[k].required => k \in DOMAIN args
  /\ \A k \in DOMAIN args : k \in DOMAIN ToolSchema /\ args[k] = ToolSchema[k].type

\* lead.test.ts:501-508  functionCalls.map(...)
ToolCalls(functionCalls) ==
  [i \in 1..Len(functionCalls) |->
     [name |-> functionCalls[i].name,
      arguments |-> JSONStringify(functionCalls[i].args)]]

\* the messages of a request: system, user and assistant turns, the
\* content of each told apart by its place
Roles == {"system", "user", "assistant"}

Conversations ==
  { [i \in 1..n |-> [role |-> roles[i], content |-> i]] :
      n \in 0..MaxMessages, roles \in [1..MaxMessages -> Roles] }

IsTurn(msg) == msg.role # "system"

\* lead.test.ts:474-484  a message as a Content of the history
GeminiContent(msg) ==
  [ role |-> IF msg.role = "user" THEN "user" ELSE "model", text |-> msg.content ]

\* lead.test.ts:470-484  the loop over the messages: system messages set the
\* instruction, every other message is pushed onto the history
GeminiHistory(messages) ==
  LET turns == SelectSeq(messages, IsTurn)
  IN [i \in 1..Len(turns) |-> GeminiContent(turns[i])]

\* lead.test.ts:463-495  build the history and the declarations, start the
\* chat with the history, send the content of messages[messages.length - 1]
\* and wait for the reply; with no message at all the read of .content throws
ChatSendMessage ==
  /\ chat.pc = "idle"
  /\ \E messages \in Conversations :
       chat' = IF messages = <<>>
                 THEN [chat EXCEPT !.pc = "threw"]
                 ELSE [chat EXCEPT !.pc = "sendMessage",
                                   !.messages = messages,
                                   !.history = GeminiHistory(messages),
                                   !.sent = Some(messages[Len(messages)].content)]
  /\ UNCHANGED <<now, meta, storeVars, sessionVars, handlerVars, nStatus, tool, stream,
                 fleetVars, setup>>

\* lead.test.ts:495-541  the reply: a rejected request is logged and
\* rethrown; function calls are returned as tool calls; else the text
ChatReply ==
  /\ chat.pc = "sendMessage"
  /\ \E failed \in BOOLEAN, functionCalls \in FunctionCalls :
       chat' = IF failed
                 THEN [chat EXCEPT !.pc = "threw"]
               ELSE IF Len(functionCalls) > 0
                 THEN [chat EXCEPT !.pc = "returned", !.reply = Some(functionCalls),
                         !.result = Some([finishReason |-> "tool_calls",
                                          toolCalls |-> ToolCalls(functionCalls)])]
               ELSE [chat EXCEPT !.pc = "returned", !.reply = Some(functionCalls),
                       !.result = Some([finishReason |-> "stop", toolCalls |-> <<>>])]
  /\ UNCHANGED <<now, meta, storeVars, sessionVars, handlerVars, nStatus, tool, stream,
                 fleetVars, setup>>

(* -------------------- DeepgramSpeechStream: events -------------------- *)

Emit(st, event) == [st EXCEPT !.emitted = Append(@, event)]

\* what a Transcript message of the provider holds
DeepgramResults == {"no_alternative", "empty_transcript", "interim", "final"}

\* deepgram-stt.ts:108-136  a Transcript message: emit 'data' if it has text
DeepgramTranscript ==
  /\ stream.connection # "closed"
  /\ Len(stream.emitted) < MaxFrames
  /\ \E d \in DeepgramResults :
       stream' = IF d \in {"interim", "final"} THEN Emit(stream, "data") ELSE stream
  /\ UNCHANGED <<now, meta, storeVars, sessionVars, handlerVars, nStatus, tool, chat,
                 fleetVars, setup>>

\* deepgram-stt.ts:138-141  an Error of the connection: log it, emit 'error'
DeepgramError ==
  /\ stream.connection # "closed"
  /\ Len(stream.emitted) < MaxFrames
  /\ stream' = Emit(stream, "error")
  /\ UNCHANGED <<now, meta, storeVars, sessionVars, handlerVars, nStatus, tool, chat,
                 fleetVars, setup>>

\* deepgram-stt.ts:143-145  the connection closed: emit 'end'
DeepgramClose ==
  /\ stream.connection # "closed"
  /\ stream' = [Emit(stream, "end") EXCEPT !.connection = "closed"]
  /\ UNCHANGED <<now, meta, storeVars, sessionVars, handlerVars, nStatus, tool, chat,
                 fleetVars, setup>>

\* deepgram-stt.ts:154-164  flush / aclose: connection.finish()
DeepgramFinish ==
  /\ stream.connection = "open"
  /\ stream' = [stream EXCEPT !.connection = "finishing"]
  /\ UNCHANGED <<now, meta, storeVars, sessionVars, handlerVars, nStatus, tool, chat,
                 fleetVars, setup>>

(* ----------------------- two concurrent calls ------------------------- *)

\* database.ts:190-200  update(updates).eq('id', callId): the row with that
\* id and no other
UpdateCallById_NoFilter(rows, id, data) ==
  [c \in DOMAIN rows |-> UpdateCall(rows[c], data)]

UpdateCallById(rows, id, data) == [rows EXCEPT ![id] = UpdateCall(@, data)]

\* the outcomes the tools write
Outcomes == {"lead_captured", "appointment_booked", "transferred"}

\* speech events and tool invocations of the two jobs together
SpokenInAll ==
  Len(jobs["call-1"].transcriptMessages) + Len(jobs["call-2"].transcriptMessages)

InvokedInAll == jobs["call-1"].invoked + jobs["call-2"].invoked

\* agent.ts:229-255  a speech-committed handler of job j (caller and agent
\* taking turns): push onto the job's own list, issue the write of the whole
\* list for the job's callId
JobSpeechCommitted(j) ==
  /\ ~jobs[j].finalized
  /\ SpokenInAll < MaxSpeech
  /\ LET speaker == IF Len(jobs[j].transcriptMessages) % 2 = 0 THEN "user" ELSE "agent"
         msgs == Push(jobs[j].transcriptMessages, [speaker |-> speaker, call |-> j])
     IN /\ jobs' = [jobs EXCEPT ![j].transcriptMessages = msgs]
        /\ pending' = pending \cup
              {[by |-> j, id |-> jobs[j].callId, data |-> [transcript |-> msgs]]}
  /\ UNCHANGED <<now, meta, storeVars, sessionVars, handlerVars, nStatus, tool,
                 adapterVars, callRows, setup>>

\* agent.ts:51-58, lead.ts:136-141, appointment.ts:176-179, transfer.ts:83-87
\* a tool of job j sets the outcome of context.callId
JobToolOutcome(j) ==
  /\ ~jobs[j].finalized
  /\ InvokedInAll < MaxTools
  /\ \E outcome \in Outcomes, ok \in BOOLEAN :
       callRows' = IF ok THEN UpdateCallById(callRows, jobs[j].callId,
                                             [outcome |-> Some(outcome)])
                         ELSE callRows
  /\ jobs' = [jobs EXCEPT ![j].invoked = @ + 1]
  /\ UNCHANGED <<now, meta, storeVars, sessionVars, handlerVars, nStatus, tool,
                 adapterVars, pending, setup>>

\* agent.ts:201-210, 335-358  the shutdown callback of job j closes callId
JobFinalize(j) ==
  /\ ~jobs[j].finalized
  /\ jobs' = [jobs EXCEPT ![j].finalized = TRUE]
  /\ \E ok \in BOOLEAN :
       callRows' = IF ok THEN UpdateCallById(callRows, jobs[j].callId,
                                             [status |-> "completed"])
                         ELSE callRows
  /\ UNCHANGED <<now, meta, storeVars, sessionVars, handlerVars, nStatus, tool,
                 adapterVars, pending, setup>>

\* database.ts:190-200  the store applies (or rejects) a handler's write
StoreApply ==
  /\ \E w \in pending, ok \in BOOLEAN :
       /\ pending' = pending \ {w}
       /\ callRows' = IF ok THEN UpdateCallById(callRows, w.id, w.data) ELSE callRows
  /\ UNCHANGED <<now, meta, storeVars, sessionVars, handlerVars, nStatus, tool,
                 adapterVars, jobs, setup>>

JobSteps ==
  \/ \E j \in CallIds : JobSpeechCommitted(j)
  \/ \E j \in CallIds : JobToolOutcome(j)
  \/ \E j \in CallIds : JobFinalize(j)
  \/ StoreApply

(* ------------------- API server: setting up a call -------------------- *)

\* part_003:101-110, 218-225  the row db.createCall inserts: the inbound
\* webhook stores the CallSid of the request, the outbound API has none yet
CreatedCall(api) ==
  [ status |-> "in_progress",
    twilio_status |-> IF api = "inbound" THEN "in-progress" ELSE "null",
    twilio_call_sid |-> (api = "inbound"),
    livekit_room_name |-> FALSE,
    ended_at |-> None,
    duration_seconds |-> None ]

SetupAt(pc) == setup.pc = pc

\* part_003:176-183, 276-279  the catch blocks: log and answer with the
\* error; the row that was created is not touched
SetupFailed(st) == [st EXCEPT !.pc = "failed"]

SetupUnchanged ==
  UNCHANGED <<now, meta, storeVars, sessionVars, handlerVars, nStatus, tool,
              adapterVars, fleetVars>>

\* part_003:100-110  POST /api/twilio/inbound, up to db.createCall: Twilio
\* has a call leg already
InboundCreateCall ==
  /\ SetupAt("idle")
  /\ \E ok \in BOOLEAN :
       setup' = IF ok THEN [setup EXCEPT !.api = "inbound", !.pc = "createRoom",
                                         !.twilioCall = TRUE,
                                         !.call = Some(CreatedCall("inbound"))]
                      ELSE SetupFailed([setup EXCEPT !.api = "inbound",
                                                     !.twilioCall = TRUE])
  /\ SetupUnchanged

\* part_003:218-225  POST /api/twilio/outbound, up to db.createCall
OutboundCreateCall ==
  /\ SetupAt("idle")
  /\ \E ok \in BOOLEAN :
       setup' = IF ok THEN [setup EXCEPT !.api = "outbound", !.pc = "createRoom",
                                         !.call = Some(CreatedCall("outbound"))]
                      ELSE SetupFailed([setup EXCEPT !.api = "outbound"])
  /\ SetupUnchanged

\* part_003:117-128, 228-237  roomService.createRoom
SetupCreateRoom ==
  /\ SetupAt("createRoom")
  /\ \E ok \in BOOLEAN :
       setup' = IF ok THEN [setup EXCEPT !.room = TRUE, !.pc = "updateCall"]
                      ELSE SetupFailed(setup)
  /\ SetupUnchanged

\* part_003:133-136, 240-243  db.updateCall with the room's name
SetupUpdateCall ==
  /\ SetupAt("updateCall")
  /\ \E ok \in BOOLEAN :
       setup' = IF ok THEN [setup EXCEPT
                              !.call = Some(UpdateCall(@[1], [livekit_room_name |-> TRUE])),
                              !.pc = IF setup.api = "inbound" THEN "token"
                                                              ELSE "callsCreate"]
                      ELSE SetupFailed(setup)
  /\ SetupUnchanged

\* part_003:139-165  token.toJwt, then the TwiML that connects the stream
InboundToken ==
  /\ SetupAt("token")
  /\ \E ok \in BOOLEAN :
       setup' = IF ok THEN [setup EXCEPT !.pc = "done"] ELSE SetupFailed(setup)
  /\ SetupUnchanged

\* part_003:251-257  twilioClient.calls.create
OutboundCallsCreate ==
  /\ SetupAt("callsCreate")
  /\ \E ok \in BOOLEAN :
       setup' = IF ok THEN [setup EXCEPT !.twilioCall = TRUE, !.pc = "updateSid"]
                      ELSE SetupFailed(setup)
  /\ SetupUnchanged

\* part_003:260-263  db.updateCall with the sid of the Twilio call
OutboundUpdateSid ==
  /\ SetupAt("updateSid")
  /\ \E ok \in BOOLEAN :
       setup' = IF ok THEN [setup EXCEPT
                              !.call = Some(UpdateCall(@[1],
                                              [twilio_call_sid |-> TRUE,
                                               twilio_status |-> "queued"])),
                              !.pc = "done"]
                      ELSE SetupFailed(setup)
  /\ SetupUnchanged

\* part_003:339-350  the lookup .eq('twilio_call_sid', CallSid)
FoundBySid(st) == st.call # None /\ st.call[1].twilio_call_sid

\* part_003:333-380  POST /api/twilio/status for the Twilio leg of this
\* call: progress reports first, one closing report when the leg has ended
SetupStatus ==
  /\ setup.twilioCall
  /\ ~setup.reported
  /\ \E CallStatus \in CallStatuses, CallDuration \in CallDurations, ok \in BOOLEAN :
       LET closing == CallStatus # "ringing"
           st == IF closing THEN [setup EXCEPT !.reported = TRUE]
                            ELSE [setup EXCEPT !.progress = @ + 1]
       IN /\ ~closing => setup.progress < MaxStatus
          /\ setup' = IF FoundBySid(setup) /\ ok
                        THEN [st EXCEPT !.call = Some(UpdateCall(@[1],
                                 StatusUpdates(CallStatus, CallDuration, now)))]
                        ELSE st
  /\ SetupUnchanged

\* agent.ts:201-210, 335-358  the job dispatched to the room ends and its
\* shutdown callback closes the row of the callId in the room's metadata
SetupJobFinalizes ==
  /\ setup.room
  /\ ~setup.job
  /\ setup.pc \in {"done", "failed"}
  /\ \E ok \in BOOLEAN :
       setup' = IF ok THEN [setup EXCEPT !.job = TRUE,
                              !.call = Some(UpdateCall(@[1],
                                              [FinalStats(now, 0) EXCEPT
                                                 !.ended_at = Some(now)]))]
                      ELSE [setup EXCEPT !.job = TRUE]
  /\ SetupUnchanged

SetupSteps ==
  \/ InboundCreateCall \/ OutboundCreateCall
  \/ SetupCreateRoom \/ SetupUpdateCall
  \/ InboundToken \/ OutboundCallsCreate \/ OutboundUpdateSid
  \/ SetupStatus \/ SetupJobFinalizes

(* --------------------------- specification ---------------------------- *)

EntrySteps ==
  EntryParse \/ EntryGetBusiness \/ EntryStart \/ EntryConnect \/ EntryMark

ShutdownSteps == Teardown \/ FinalGetCall \/ FinalUpdate

BoundarySteps ==
  \/ UserStartedSpeaking \/ UserStoppedSpeaking
  \/ AgentStartedSpeaking \/ AgentStoppedSpeaking

HandlerSteps ==
  \/ BoundarySteps
  \/ UserSpeechCommitted \/ AgentSpeechCommitted \/ MetricsCollected \/ ApplyWrite

ToolSteps ==
  \/ BookStart \/ BookGetBusiness \/ BookCalendar \/ BookCreateAppointment
  \/ BookLogEvent \/ BookUpdateCall
  \/ LeadStart \/ LeadGetBusiness \/ LeadCreate \/ LeadHubSpot \/ LeadUpdateLead
  \/ LeadLogEvent \/ LeadUpdateCall
  \/ LookupStart \/ LookupQuery \/ LookupLogEvent
  \/ TransferStart \/ TransferGetBusiness \/ TransferGetCall
  \/ TransferGetPhoneNumber \/ TransferUpdateCall \/ TransferLogEvent
  \/ TransferRedirect
  \/ HoursStart \/ HoursGetBusiness

ChatSteps == ChatSendMessage \/ ChatReply

StreamSteps == DeepgramTranscript \/ DeepgramError \/ DeepgramClose \/ DeepgramFinish

\* the whole system
Next ==
  \/ Tick \/ EntrySteps \/ ShutdownSteps \/ TwilioStatus \/ HandlerSteps \/ ToolSteps
  \/ ChatSteps \/ StreamSteps \/ JobSteps \/ SetupSteps

Spec == Init /\ [][Next]_vars

\* the life of the job and of the call row: entry, teardown, finalization
\* and the status callback
NextLifecycle == Tick \/ EntrySteps \/ ShutdownSteps \/ TwilioStatus

SpecLifecycle == Init /\ [][NextLifecycle]_vars

\* the transcript handlers of an attached session and their writes
NextTranscript ==
  Tick \/ EntrySteps \/ UserSpeechCommitted \/ AgentSpeechCommitted \/ ApplyWrite

SpecTranscript == Init /\ [][NextTranscript]_vars

\* the metrics handler of an attached session and its writes
NextCosts == Tick \/ EntrySteps \/ MetricsCollected \/ ApplyWrite

SpecCosts == Init /\ [][NextCosts]_vars

\* the tool invocations of an attached session
NextTools == EntrySteps \/ ToolSteps

SpecTools == Init /\ [][NextTools]_vars

BookSteps ==
  \/ BookStart \/ BookGetBusiness \/ BookCalendar \/ BookCreateAppointment
  \/ BookLogEvent \/ BookUpdateCall

\* the bookings of an attached session, as time passes
NextBooking == Tick \/ EntrySteps \/ BookSteps

SpecBooking == Init /\ [][NextBooking]_vars

\* every handler of an attached session and the writes they issue
NextHandlers == EntrySteps \/ HandlerSteps

SpecHandlers == Init /\ [][NextHandlers]_vars

\* a booking while the job is torn down
NextTeardown == EntrySteps \/ ShutdownSteps \/ BookSteps

SpecTeardown == Init /\ [][NextTeardown]_vars

\* transfers of a caller who asks for a person more than once
NextTransfer ==
  \/ EntrySteps
  \/ TransferStartAgain \/ TransferGetBusiness \/ TransferGetCall
  \/ TransferGetPhoneNumber \/ TransferUpdateCall \/ TransferLogEvent
  \/ TransferRedirect

SpecTransfer == Init /\ [][NextTransfer]_vars

\* what the three outcome-setting tools say when they have done their work
SuccessStrings ==
  { "booked_meet_link", "booked_confirmation_email",
    "lead_saved_email", "lead_saved_phone",
    "connect_you", "transferring_now" }

\* no invocation yet, or the last one succeeded
LastSucceeded == tool.pc = "idle" \/ tool.result \in SuccessStrings

\* the tools that set the outcome, invoked one after another in one call,
\* each after the success of the one before: a lead or a transfer can follow
\* the MaxTools invocations any tool can make
NextOutcome ==
  \/ EntrySteps
  \/ (LastSucceeded /\ BookStart) \/ BookGetBusiness \/ BookCalendar \/ BookCreateAppointment
  \/ BookLogEvent \/ BookUpdateCall
  \/ (LastSucceeded /\ LeadStartAgain) \/ LeadGetBusiness \/ LeadCreate \/ LeadHubSpot
  \/ LeadUpdateLead \/ LeadLogEvent \/ LeadUpdateCall
  \/ (LastSucceeded /\ TransferStartAgain) \/ TransferGetBusiness \/ TransferGetCall
  \/ TransferGetPhoneNumber \/ TransferUpdateCall \/ TransferLogEvent
  \/ TransferRedirect

SpecOutcome == Init /\ [][NextOutcome]_vars

\* the transcript and cost handlers of a session, their writes, and the
\* job's teardown running while writes are still with the store
NextClosing ==
  \/ EntrySteps \/ ShutdownSteps
  \/ UserSpeechCommitted \/ AgentSpeechCommitted \/ MetricsCollected \/ ApplyWrite

SpecClosing == Init /\ [][NextClosing]_vars

\* a transfer in a call that entry has marked in progress, and what writes
\* the call row after it, one kind of writer per behaviour: the transcript
\* handler's writes, or the cost writes, or a lead capture, or the status
\* callback and the finalization
TransferDone ==
  row.transferred_to_human /\ tool.pc = "done" /\ tool.kind = "transfer_to_human"

HandlersQuiet == transcriptMessages = <<>> /\ nMetrics = 0

ServerQuiet == nStatus = 0 /\ shutdown = "none"

NextSticky ==
  \/ EntrySteps
  \/ (entry = "ready" /\ TransferStart) \/ TransferGetBusiness \/ TransferGetCall
  \/ TransferGetPhoneNumber \/ TransferUpdateCall \/ TransferLogEvent
  \/ TransferRedirect
  \/ (TransferDone /\ ServerQuiet /\ nMetrics = 0 /\ UserSpeechCommitted)
  \/ (TransferDone /\ ServerQuiet /\ transcriptMessages = <<>> /\ MetricsCollected)
  \/ ApplyWrite
  \/ (TransferDone /\ HandlersQuiet /\ ServerQuiet /\ LeadStartAgain)
  \/ LeadGetBusiness \/ LeadCreate \/ LeadHubSpot \/ LeadUpdateLead
  \/ LeadLogEvent \/ LeadUpdateCall
  \/ (TransferDone /\ HandlersQuiet /\ TwilioStatus)
  \/ (TransferDone /\ HandlersQuiet /\ Teardown) \/ FinalGetCall \/ FinalUpdate

SpecSticky == Init /\ [][NextSticky]_vars

\* the webhook or the API setting up one call, and what closes its row
SpecSetup == Init /\ [][SetupSteps]_vars

\* the same, where every request in progress is answered, Twilio delivers
\* the closing status of a leg it has, and a job dispatched to a room ends
SpecSetupLive ==
  /\ SpecSetup
  /\ WF_vars(SetupCreateRoom) /\ WF_vars(SetupUpdateCall) /\ WF_vars(InboundToken)
  /\ WF_vars(OutboundCallsCreate) /\ WF_vars(OutboundUpdateSid)
  /\ WF_vars(SetupStatus /\ setup'.reported)
  /\ WF_vars(SetupJobFinalizes)

\* two calls served at the same time
SpecFleet == Init /\ [][JobSteps]_vars

\* one call of GeminiLLM.chat
SpecResponder == Init /\ [][ChatSteps]_vars

\* one DeepgramSpeechStream
SpecStream == Init /\ [][StreamSteps]_vars

(* ------------------------------ claims -------------------------------- *)

RowOf(rows, inv) == {i \in 1..Len(rows) : rows[i].inv = inv}

(* C1 *)

\* a returned transfer_to_human invocation that found the business, the call
\* with its inbound line and the line's forwarding number, and none of whose
\* store writes failed
TransferConfigured ==
  /\ tool.kind = "transfer_to_human"
  /\ tool.pc = "done"
  /\ {"business", "call", "forward_to"} \subseteq tool.env
  /\ tool.failed = {}

\* C1: after a transfer_to_human invocation with business, call and forwarding
\* number present and successful store writes, the call row has
\* transferred_to_human = true and outcome = 'transferred', and the invocation
\* recorded exactly one 'transfer_initiated' event, whether the carrier
\* redirect was skipped (no call SID), succeeded or failed.
C1_TransferMarksCall ==
  TransferConfigured =>
    /\ row.transferred_to_human = TRUE
    /\ row.outcome = Some("transferred")
    /\ EventCount("transfer_initiated", tool.inv) = 1
    /\ tool.external \in (IF meta.twilioCallSid THEN {"ok", "failed"} ELSE {"none"})

\* the carrier redirect was attempted and failed
C1_Witness == TransferConfigured /\ tool.external = "failed"

\* the two other carrier cases
C1_RedirectSkipped == TransferConfigured /\ tool.external = "none"
C1_RedirectSucceeded == TransferConfigured /\ tool.external = "ok"

(* C2 *)

\* a returned book_appointment invocation whose date is valid and later than
\* the time of the invocation
BookValidFuture ==
  /\ tool.kind = "book_appointment"
  /\ tool.pc = "done"
  /\ tool.scheduledAt # InvalidDate
  /\ tool.scheduledAt[1] > tool.at

Booked ==
  /\ RowOf(appointments, tool.inv) # {}
  /\ row.outcome = Some("appointment_booked")

\* C2 as stated: every book_appointment invocation with a valid future date
\* creates an appointment row and sets the outcome 'appointment_booked',
\* whatever the calendar does.
C2_Original == BookValidFuture => Booked

BookStoreOk ==
  /\ "business" \in tool.env
  /\ tool.failed \cap {"createAppointment", "updateCall"} = {}

\* C2 amended: every book_appointment invocation with a valid future date
\* whose business was found and whose appointment insert and call update
\* succeeded creates an appointment row and sets the outcome
\* 'appointment_booked', with the calendar not connected, succeeding or
\* failing; after a calendar failure the row carries no meeting link.
C2_BookedWhateverCalendar ==
  (BookValidFuture /\ BookStoreOk) =>
    /\ Booked
    /\ tool.external \in {"none", "ok", "failed"}
    /\ tool.external = "failed" =>
         /\ \A i \in RowOf(appointments, tool.inv) : ~appointments[i].google_meet_link
         /\ tool.result = "booked_confirmation_email"

\* the calendar was connected and the insert failed
C2_Witness ==
  /\ BookValidFuture /\ BookStoreOk
  /\ "calendar" \in tool.env
  /\ tool.external = "failed"

(* C3 *)

\* a returned create_lead invocation with CRM sync configured whose CRM call
\* failed (it has a contact channel, or it would not have reached the CRM)
LeadCrmFailed ==
  /\ tool.kind = "create_lead"
  /\ tool.pc = "done"
  /\ "hubspot_api_key" \in tool.env
  /\ tool.external = "failed"
  /\ tool.args.email \/ tool.args.phone \/ meta.callerPhone

LeadSaved ==
  /\ RowOf(leads, tool.inv) # {}
  /\ ~tool.threw

LeadConfirmed ==
  /\ row.outcome = Some("lead_captured")
  /\ tool.result \in {"lead_saved_email", "lead_saved_phone"}

\* C3 as stated: with a contact channel, CRM configured and the CRM call
\* failing, the lead row is created, the outcome is 'lead_captured', the tool
\* returns its success message and nothing is thrown.
C3_Original == LeadCrmFailed => (LeadSaved /\ LeadConfirmed)

\* C3 amended: with a contact channel, CRM configured and the CRM call
\* failing, the lead row is created and nothing is thrown; if the call-row
\* update that follows succeeds, the outcome is 'lead_captured' and the tool
\* returns its success message.
C3_LeadSurvivesCrmFailure ==
  LeadCrmFailed =>
    /\ LeadSaved
    /\ "updateCall" \notin tool.failed => LeadConfirmed

C3_Witness == LeadCrmFailed /\ "updateCall" \notin tool.failed

(* C4 *)

TerminalStatuses == {"completed", "failed", "abandoned"}

\* C4: once the row's status is completed, failed or abandoned, no step
\* changes it back to in_progress.
C4_StatusOnlyForward ==
  [][row.status \in TerminalStatuses => row'.status # "in_progress"]_vars

(* C5 *)

\* C5: every value the row's transcript takes extends the value it had.
C5_TranscriptAppendOnly == [][IsPrefix(row.transcript, row'.transcript)]_vars

(* C6 *)

\* C6: no update of the row decreases cost_stt, cost_llm, cost_tts or
\* cost_total.
C6_CostsNeverDecrease ==
  [][ /\ row'.cost_stt >= row.cost_stt
      /\ row'.cost_llm >= row.cost_llm
      /\ row'.cost_tts >= row.cost_tts
      /\ row'.cost_total >= row.cost_total ]_vars

(* C7 *)

Finalized ==
  /\ row.status = "completed"
  /\ row.ended_at # None
  /\ row.duration_seconds =
       Some((row.ended_at[1] - row.started_at) \div MsPerSecond)

\* C7: when the teardown of a session (one whose room metadata names the
\* business and the call) is over, the row is finalized: status 'completed',
\* ended_at set, duration_seconds the whole seconds from started_at.
C7_TeardownFinalizes ==
  (meta.businessId /\ meta.callId /\ shutdown = "closed") => Finalized

(* C8 *)

FinalizesOnce ==
  /\ callbacks <= 1
  /\ finalizeRuns <= 1
  /\ ~callbackThrew

SpokenStrings ==
  { "date_passed", "book_apology", "booked_meet_link", "booked_confirmation_email",
    "need_contact", "lead_apology", "lead_saved_email", "lead_saved_phone",
    "need_phone", "lookup_unable", "generic_greeting", "new_customer",
    "welcome_back", "welcome_back_valued",
    "transfer_apology", "team_will_reach_out", "connect_you", "transferring_now",
    "monday_through_friday", "schedule_callback",
    "closed_today", "open_until", "closed_open_hours" }

\* C9: no execute throws; each returns one of its spoken strings, for every
\* failure of the store and of the calendar, the CRM and the carrier.
C9_NoToolThrows ==
  /\ ~tool.threw
  /\ tool.pc = "done" => tool.result \in SpokenStrings

\* an invocation that met a failed store write and returned
C9_Witness == tool.pc = "done" /\ "updateCall" \in tool.failed

(* C10 *)

\* C10: once ended_at, duration_seconds or a terminal status is written to
\* the row, no later operation writes it again.
C10_ClosedOnce ==
  [][ /\ row.ended_at # None => row'.ended_at = row.ended_at
      /\ row.duration_seconds # None => row'.duration_seconds = row.duration_seconds
      /\ row.status \in TerminalStatuses => row'.status = row.status ]_vars

(* C11 *)

TimestampsNonDecreasing(msgs) ==
  \A i \in 1..(Len(msgs) - 1) : msgs[i].timestamp <= msgs[i + 1].timestamp

\* C11: the in-memory transcript only changes by a handler adding, at its
\* end, the entry of the speech it handles, stamped with the time of
\* handling; timestamps never decrease along the list and no existing entry
\* is removed or rewritten.
C11_TranscriptInSpeechOrder ==
  [][ /\ transcriptMessages' # transcriptMessages =>
           \E speaker \in {"user", "agent"} :
             transcriptMessages' =
               Append(transcriptMessages, [speaker |-> speaker, timestamp |-> now])
      /\ TimestampsNonDecreasing(transcriptMessages') ]_vars

\* two speeches of different speakers, handled at different times
C11_Witness ==
  /\ Len(transcriptMessages) = 2
  /\ transcriptMessages[1].speaker # transcriptMessages[2].speaker
  /\ transcriptMessages[1].timestamp < transcriptMessages[2].timestamp

(* C12 *)

\* the invocation left no trace: it read nothing, wrote nothing, called no
\* integration, and no row or event carries its number
NoTrace ==
  /\ tool.env = {} /\ tool.failed = {} /\ tool.external = "none"
  /\ RowOf(appointments, tool.inv) = {}
  /\ RowOf(leads, tool.inv) = {}
  /\ \A e \in BagToSet(events) : e.inv # tool.inv

\* the step is a whole invocation: execute returned before its first await
ReturnsAtOnce == tool'.inv = tool.inv + 1 /\ tool'.pc = "done"

BookPast ==
  /\ tool.kind = "book_appointment"
  /\ tool.scheduledAt # InvalidDate
  /\ tool.scheduledAt[1] < tool.at

\* C12: a book_appointment invocation whose scheduled instant is earlier than
\* the time of the invocation returns the 'already passed' message at once
\* and changes nothing: no appointment row, no calendar call, no call event,
\* no update of the call row.
C12_PastDateChangesNothing ==
  [][ (BookPast' /\ tool' # tool) =>
        /\ ReturnsAtOnce
        /\ tool'.result = "date_passed"
        /\ NoTrace'
        /\ UNCHANGED storeVars ]_vars

\* a booking asked, after time has passed, for an instant already gone
C12_Witness == BookPast /\ tool.pc = "done" /\ tool.at > 0

(* C13 *)

LeadNoContact ==
  /\ tool.kind = "create_lead"
  /\ ~tool.args.email /\ ~tool.args.phone /\ ~meta.callerPhone

\* C13: a create_lead invocation without email, phone and caller phone
\* returns the prompt for an email address or phone number at once and
\* changes nothing: no lead row, no CRM call, no call event, no update of the
\* call row.
C13_NoContactChangesNothing ==
  [][ (LeadNoContact' /\ tool' # tool) =>
        /\ ReturnsAtOnce
        /\ tool'.result = "need_contact"
        /\ NoTrace'
        /\ UNCHANGED storeVars ]_vars

C13_Witness == LeadNoContact /\ tool.pc = "done"

(* C14 *)

\* a returned transfer_to_human invocation that found the call and its
\* inbound line, and no forwarding number on the line
TransferNoForward ==
  /\ tool.kind = "transfer_to_human"
  /\ tool.pc = "done"
  /\ "call" \in tool.env
  /\ "forward_to" \notin tool.env

\* C14: no step of a transfer_to_human invocation that has found no
\* forwarding number changes transferred_to_human or outcome or records an
\* event; when the line has no forwarding number the invocation returns the
\* manual follow-up message, with no 'transfer_initiated' event, no carrier
\* redirect and no store write attempted.
C14_NoForwardingNumber ==
  [][ /\ ( /\ tool'.kind = "transfer_to_human"
           /\ tool' # tool
           /\ "forward_to" \notin tool'.env ) =>
             /\ row'.transferred_to_human = row.transferred_to_human
             /\ row'.outcome = row.outcome
             /\ events' = events
      /\ TransferNoForward' =>
             /\ tool'.result = "team_will_reach_out"
             /\ EventCount("transfer_initiated", tool.inv)' = 0
             /\ tool'.external = "none"
             /\ tool'.failed = {} ]_vars

C14_Witness == TransferNoForward /\ tool.result = "team_will_reach_out"

(* C15 *)

\* a returned transfer_to_human invocation that found a forwarding number
TransferForwarding ==
  /\ tool.kind = "transfer_to_human"
  /\ tool.pc = "done"
  /\ "forward_to" \in tool.env

\* the two messages that say a transfer is under way
TransferInProgress == {"connect_you", "transferring_now"}

\* C15 as stated: every transfer_to_human invocation with a forwarding number
\* configured ends with a transfer-in-progress message.
C15_Original == TransferForwarding => tool.result \in TransferInProgress

\* C15 amended: every transfer_to_human invocation with a forwarding number
\* configured whose call-row update succeeded ends with a transfer-in-progress
\* message: the connect-you message without a telephony leg id and after a
\* failed carrier redirect, the transferring-now message after a successful
\* one.
C15_CarrierFailureStillTransfers ==
  (TransferForwarding /\ "updateCall" \notin tool.failed) =>
    /\ tool.result \in TransferInProgress
    /\ tool.external = "ok" <=> tool.result = "transferring_now"
    /\ tool.external \in {"none", "failed"} <=> tool.result = "connect_you"
    /\ meta.twilioCallSid <=> tool.external # "none"

\* the carrier redirect threw and the caller heard the connect-you message
C15_Witness ==
  /\ TransferForwarding
  /\ tool.external = "failed"
  /\ tool.result = "connect_you"

(* C16 *)

\* C16: a book_appointment invocation whose scheduled instant is not later
\* than the time of the invocation (earlier, or equal) is rejected with the
\* date-has-passed message and creates no appointment.
C16_RejectsUnlessStrictlyFuture ==
  ( /\ tool.kind = "book_appointment"
    /\ tool.scheduledAt # InvalidDate
    /\ tool.scheduledAt[1] <= tool.at ) =>
      /\ tool.result = "date_passed"
      /\ RowOf(appointments, tool.inv) = {}

(* C17 *)

\* the instant at which a zone's wall clock shows the reading
InstantIn(wall, offset) == Some(wall[1] - offset)

\* C17: the instant book_appointment checks and stores is the given date and
\* time read in the tenant's timezone, whatever the timezone of the process.
C17_InstantInTenantTimezone ==
  ( /\ tool.kind = "book_appointment"
    /\ tool.args.date # None
    /\ tool.timezone # None ) =>
      /\ tool.scheduledAt = InstantIn(tool.args.date, tool.timezone[1])
      /\ \A i \in RowOf(appointments, tool.inv) :
           Some(appointments[i].scheduled_at) =
             InstantIn(tool.args.date, tool.timezone[1])

(* C18 *)

LookupNoPhone ==
  /\ tool.kind = "lookup_customer"
  /\ ~tool.args.phone /\ ~meta.callerPhone

\* C18: a lookup_customer invocation without a phone argument and without a
\* caller phone returns the prompt for a phone number at once: no leads
\* query runs and no call event is recorded.
C18_NoPhoneNoQuery ==
  [][ (LookupNoPhone' /\ tool' # tool) =>
        /\ ReturnsAtOnce
        /\ tool'.result = "need_phone"
        /\ NoTrace'
        /\ UNCHANGED storeVars ]_vars

C18_Witness == LookupNoPhone /\ tool.pc = "done"

(* C19 *)

\* C19: a lookup_customer invocation whose leads query failed, by an error
\* in the result or by throwing, returns the generic greeting, records no
\* call event and does not throw.
C19_LookupFailureGreets ==
  ( /\ tool.kind = "lookup_customer"
    /\ tool.pc = "done"
    /\ tool.env \cap {"query_error", "query_threw"} # {} ) =>
      /\ tool.result = "generic_greeting"
      /\ \A e \in BagToSet(events) : e.inv # tool.inv
      /\ ~tool.threw

(* C20 *)

\* C20: a check_business_hours invocation that could not load the business
\* returns the generic helpful prompt, not a statement of opening hours, and
\* does not throw.
C20_NoBusinessHelpfulPrompt ==
  ( /\ tool.kind = "check_business_hours"
    /\ tool.pc = "done"
    /\ tool.env = {} ) =>
      /\ tool.result = "schedule_callback"
      /\ ~tool.threw

(* C21 *)

\* C21: check_business_hours, for a business with a weekly hours map, reports
\* 'currently open' exactly when the map has an entry for the current weekday
\* and open <= local time < close, 'currently closed' with that day's hours
\* when the time is outside them, and 'closed today' when the map has no
\* entry for the weekday.
C21_ReportsOpenOrClosed ==
  (tool.kind = "check_business_hours" /\ tool.pc = "done"
     /\ "business_hours" \in tool.env)
    => tool.result = HoursReport(tool.hours[1].today, tool.hours[1].currentTime)

(* C22 *)

MetadataMissing == ~meta.businessId \/ ~meta.callId

\* C22: with room metadata that lacks businessId or callId, entry fails
\* before the turn loop: it never gets past reading the metadata, no session
\* is started, no handler and no shutdown callback is registered, no
\* finalization runs, and no step of the job changes the store (the only
\* writer left is the status callback of the API server).
C22_MissingIdsFailBeforeSession ==
  [][ MetadataMissing =>
        /\ entry' \in {"parse", "threw"}
        /\ ~attached'
        /\ callbacks' = 0
        /\ finalizeRuns' = 0
        /\ inflight' = {} /\ transcriptMessages' = <<>>
        /\ (nStatus' = nStatus => UNCHANGED storeVars) ]_vars

\* entry threw on incomplete metadata and the job was torn down, the row
\* still as the server created it
C22_Witness ==
  /\ MetadataMissing
  /\ entry = "threw"
  /\ shutdown = "closed"
  /\ row = NewCall

(* C23 *)

\* C23: within one tool invocation the external integration is requested at
\* most once, and after a failed request it is not requested again.
C23_IntegrationCalledOnce ==
  [][ /\ tool'.calls <= 1
      /\ (tool.external = "failed" /\ tool'.inv = tool.inv)
           => tool'.calls = tool.calls ]_vars

\* an invocation returned after its one request to the integration failed
C23_Witness ==
  /\ tool.pc = "done"
  /\ tool.external = "failed"
  /\ tool.calls = 1

(* C24 *)

\* C24: a persistence write that fails inside a session event handler is
\* swallowed: whatever the handler (speech boundary, transcript, metrics),
\* the failure never surfaces as an unhandled rejection.
C24_HandlerFailuresSwallowed == handlerFailures \subseteq {"costErrorLogged"}

(* C25 *)

\* the text of the notes column, piece by piece
NotesOf(r) == IF r.notes = None THEN <<>> ELSE r.notes[1]

\* C25: the write of a successful transfer_to_human appends to the notes:
\* afterwards the column holds the notes the call had before, followed by
\* the transfer reason and the notes of the invocation.
C25_TransferAppendsNotes ==
  [][ (At("transfer_to_human", "updateCall") /\ tool'.pc = "logEvent")
        => NotesOf(row') = NotesOf(row) \o <<tool.args.reason>> \o tool.args.notes ]_vars

(* C26 *)

OrchestratorFields ==
  {"transcript", "status", "answered_at", "ended_at", "duration_seconds"}

ToolFields == {"outcome", "transferred_to_human"}

SameIn(fields) == \A f \in fields : row'[f] = row[f]

\* C26: each field group of the call row has one writer: a step of a tool
\* leaves transcript, status and timing alone, a step of the orchestrator
\* (entry, handlers' writes, finalization) leaves outcome and
\* transferred_to_human alone, and while the session is active no other
\* writer changes the row.
C26_SingleWriterPerFieldGroup ==
  [][ /\ (tool' # tool) => SameIn(OrchestratorFields)
      /\ (entry' # entry \/ shutdown' # shutdown \/ inflight' # inflight)
           => SameIn(ToolFields)
      /\ (Live /\ nStatus' # nStatus) => row' = row ]_vars

(* C27 *)

ToolRunning == tool.pc \notin {"idle", "done"}

\* C27: a tool invocation that has started finishes before teardown
\* proceeds: the finalization write is not applied while the tool is still
\* running, and no step of a tool changes the store after the row was closed.
C27_TeardownWaitsForTool ==
  [][ /\ (shutdown = "update" /\ shutdown' # shutdown) => ~ToolRunning
      /\ (row.ended_at # None /\ tool' # tool) => UNCHANGED storeVars ]_vars

(* C28 *)

\* the costs of the usage collected so far
CostOfUsage ==
  CostUpdate([ sttDuration |-> usage.stt, llmTokensInput |-> usage.llm,
               llmTokensOutput |-> 0, ttsCharacters |-> usage.tts ])

Near(a, b) == a - b <= nMetrics /\ b - a <= nMetrics

\* C28: once every cost write has been applied, the persisted costs are the
\* running totals of the usage of all metrics events so far (to within the
\* rounding of one cent per event), and cost_total is their sum.
C28_CostsAreRunningTotals ==
  (inflight = {} /\ "costErrorLogged" \notin handlerFailures)
    => /\ Near(row.cost_stt, CostOfUsage.cost_stt)
       /\ Near(row.cost_llm, CostOfUsage.cost_llm)
       /\ Near(row.cost_tts, CostOfUsage.cost_tts)
       /\ row.cost_total = row.cost_stt + row.cost_llm + row.cost_tts

(* C29 *)

\* C29: GeminiLLM.chat never returns a tool call whose arguments violate the
\* declared schema of the tool: a reply with malformed or missing arguments
\* ends in an error, not in a returned tool call.
C29_ToolCallsConformToSchema ==
  chat.pc = "returned"
    => \A i \in 1..Len(chat.result[1].toolCalls) :
         Conforms(JSONParse(chat.result[1].toolCalls[i].arguments))

(* C30 *)

\* C30: once a DeepgramSpeechStream has emitted 'error', the stream is
\* terminated: 'end' is signalled with it, no 'data' is emitted after it, and
\* the stream never opens a second connection.
C30_ErrorTerminatesStream ==
  \A i \in 1..Len(stream.emitted) :
    stream.emitted[i] = "error"
      => /\ \E j \in (i + 1)..Len(stream.emitted) : stream.emitted[j] = "end"
         /\ \A j \in (i + 1)..Len(stream.emitted) : stream.emitted[j] # "data"
         /\ stream.connects = 1

(* C31 *)

\* the call row carries the mark of the transfer invocation in progress
MarkedByInvocation ==
  /\ row.transferred_to_human
  /\ row.outcome = Some("transferred")
  /\ row.notes = TransferUpdate(tool.args.reason, tool.args.notes).notes

\* the insert of this invocation's 'transfer_initiated' event has been made
\* (the row is there unless the store dropped the insert)
TransferEventMade ==
  \/ EventCount("transfer_initiated", tool.inv) = 1
  \/ "logCallEvent" \in tool.failed

\* C31: in a transfer_to_human invocation with a forwarding number the steps
\* come in this order: the update of the call row is acknowledged, then the
\* 'transfer_initiated' event is inserted, then the carrier redirect is
\* attempted; the redirect is attempted only with a telephony leg id in the
\* call context and never before the row was marked.
C31_MarkThenEventThenRedirect ==
  [][ /\ (At("transfer_to_human", "logEvent") /\ tool' # tool)
           => MarkedByInvocation /\ EventCount("transfer_initiated", tool.inv) = 0
      /\ (At("transfer_to_human", "redirect") /\ tool' # tool)
           => MarkedByInvocation /\ TransferEventMade /\ meta.twilioCallSid ]_vars

\* a redirect was attempted, after the mark and the event
C31_Witness ==
  /\ tool.kind = "transfer_to_human"
  /\ tool.external # "none"
  /\ MarkedByInvocation
  /\ EventCount("transfer_initiated", tool.inv) = 1

(* C32 *)

\* the outcome each tool writes
OutcomeOf(kind) ==
  IF kind = "book_appointment" THEN Some("appointment_booked")
  ELSE IF kind = "create_lead" THEN Some("lead_captured")
  ELSE Some("transferred")

\* the rows and events the store held are still there, in place
ArtifactsKept ==
  /\ Len(leads') >= Len(leads)
  /\ \A i \in 1..Len(leads) : leads'[i].inv = leads[i].inv
  /\ Len(appointments') >= Len(appointments)
  /\ \A i \in 1..Len(appointments) : appointments'[i] = appointments[i]
  /\ events \sqsubseteq events'

OthersUntouched(c) ==
  \A d \in CallIds \ {c} : callRows'[d] = callRows[d] /\ jobs'[d] = jobs[d]

\* C33: two sessions with different call ids are isolated: a step of the job
\* of one call (a handler, a tool, its finalization), and the store applying
\* a write that job issued, leave the other call's row and the other job's
\* transcript and tool context as they were.
C33_ConcurrentCallsIsolated ==
  [][ /\ \A c \in CallIds : jobs'[c] # jobs[c] => OthersUntouched(c)
      /\ \A w \in pending \ pending' : OthersUntouched(w.by) ]_vars

\* both calls spoke and were closed, each row with its own call's
\* transcript, and a tool of one of them set its outcome
C33_Witness ==
  /\ \A c \in CallIds :
       /\ jobs[c].finalized
       /\ callRows[c].status = "completed"
       /\ callRows[c].transcript # <<>>
       /\ callRows[c].transcript = jobs[c].transcriptMessages
  /\ \E c \in CallIds : jobs[c].invoked > 0 /\ callRows[c].outcome # None

(* C34 *)

\* the failure apologies of book_appointment, create_lead, transfer_to_human
FailureApologies == {"book_apology", "lead_apology", "transfer_apology"}

\* an event of any type logged by invocation inv
EventsOf(inv) == {e \in BagToSet(events) : e.inv = inv}

\* C34: when book_appointment, create_lead or transfer_to_human returns its
\* failure apology, the invocation left nothing behind: no appointment row,
\* no lead row, no call event, and (for the first invocation of the call) no
\* outcome and no transfer mark on the call row.
C34_ApologyLeavesNoEffect ==
  (tool.pc = "done" /\ tool.result \in FailureApologies) =>
    /\ \A i \in 1..Len(appointments) : appointments[i].inv # tool.inv
    /\ \A i \in 1..Len(leads) : leads[i].inv # tool.inv
    /\ EventsOf(tool.inv) = {}
    /\ tool.inv = 1 => row.outcome = None /\ ~row.transferred_to_human

(* C35 *)

\* the finalization of this session has closed the row
ClosedByFinalization ==
  /\ row.status = "completed"
  /\ \E i \in 1..Len(finalLog) : finalLog[i] = "call_completed"

\* C35: once finalization has written status 'completed', no transcript
\* write and no cost write of the session's handlers, a write still in
\* flight at teardown included, changes the row.
C35_ClosedRowNotModified ==
  [][ (ClosedByFinalization /\ inflight' # inflight) => row' = row ]_vars

(* C36 *)

\* the webhook or the API failed after it had created the call row
SetupFailedWithRow == setup.pc = "failed" /\ setup.call # None

RowLeftInProgress == setup.call # None /\ setup.call[1].status # "in_progress"

\* C36: no call row is left in_progress by a failed setup: when the inbound
\* webhook or the outbound API fails after creating the row, the row
\* eventually leaves status 'in_progress'.
C36_FailedSetupClosesRow == SetupFailedWithRow ~> RowLeftInProgress

(* C37 *)

\* C37: transferred_to_human is sticky: once the call row has it true, no
\* later operation on the call (a tool, a transcript or cost write, the
\* finalization, a status callback) sets it back.
C37_TransferredIsSticky ==
  [][ row.transferred_to_human => row'.transferred_to_human ]_vars

\* a transferred call that the status callback reported completed and the
\* finalization closed: the mark is still there
C37_Witness ==
  /\ row.transferred_to_human
  /\ row.status = "completed"
  /\ row.twilio_status = "completed"
  /\ \E i \in 1..Len(finalLog) : finalLog[i] = "call_completed"

(* C38 *)

\* the texts of the turns the provider is given: the history the chat was
\* started with, then the message sent
SubmittedTexts ==
  [i \in 1..Len(chat.history) |-> chat.history[i].text] \o chat.sent

\* the contents of the input's non-system messages, in their order
TurnTexts ==
  LET turns == SelectSeq(chat.messages, IsTurn)
  IN [i \in 1..Len(turns) |-> turns[i].content]

\* C38: in one GeminiLLM.chat call the turns submitted to the provider (the
\* chat history followed by the sent message) are the input's non-system
\* messages in their original order, each exactly once.
C38_ConversationSubmittedAsGiven ==
  chat.pc \in {"sendMessage", "returned"} => SubmittedTexts = TurnTexts

====
